---- MODULE Spec2Model ----
(***************************************************************************)
(* A model of the fMRI QA scripts of fMRI_report_python: the Ernst-factor  *)
(* routines, process_data_with_metrics and run_qa_with_metrics             *)
(* (qa_with_metrics.py), process_data_nophase (qa_with_tr_detection.py)    *)
(* and process_data_memory_optimized (qa_memory_optimized.py).             *)
(*                                                                         *)
(* Numbers.  A Python float is a record [k, v]: k = "num" carries the      *)
(* value v in thousandths (fixed point, rounded down), k = "nan", "inf",   *)
(* "ninf" are the IEEE special values numpy produces, k = "none" is        *)
(* Python's None and k = "unknown" the string 'Unknown'.  TR is in         *)
(* milliseconds, an Ernst factor in ten-thousandths (0.5745 is 5745).      *)
(* A volume has one voxel per slice (nx = ny = 1): volume[z][t].           *)
(***************************************************************************)
EXTENDS Integers, Sequences, FiniteSets, TLC

\* ------------------------------------------------------------------ bounds
MaxNz == 2
MaxFiles == 2
MaxStatsNz == 3
MaxMaskVoxels == 2
MaxLoopNz == 6
MaxDriverFiles == 2

\* ------------------------------------------------------------------ floats
Milli == 10 * 10 * 10
ErnstUnit == 10 * Milli

Num(n) == [k |-> "num", v |-> n]
None == [k |-> "none", v |-> 0]
Unknown == [k |-> "unknown", v |-> 0]
NaN == [k |-> "nan", v |-> 0]
PInf == [k |-> "inf", v |-> 0]
NInf == [k |-> "ninf", v |-> 0]

IsNum(x) == x.k = "num"

\* Python truthiness of a TR argument: None and 0.0 are falsy, everything else
\* (negative numbers and NaN included) is truthy.
Truthy(x) == ~(x.k = "none" \/ (x.k = "num" /\ x.v = 0))

Sign(x) == IF x.k = "inf" THEN 1 ELSE IF x.k = "ninf" THEN -1
           ELSE IF x.v > 0 THEN 1 ELSE IF x.v < 0 THEN -1 ELSE 0

Signed(s) == IF s > 0 THEN PInf ELSE IF s < 0 THEN NInf ELSE NaN

\* numpy's a / b on floats: x/0 is +-inf, 0/0 is nan, nothing is raised.
FDiv(a, b) ==
    IF a.k = "nan" \/ b.k = "nan" THEN NaN
    ELSE IF ~IsNum(a) /\ ~IsNum(b) THEN NaN
    ELSE IF ~IsNum(a) THEN (IF b.v = 0 THEN a ELSE Signed(Sign(a) * Sign(b)))
    ELSE IF ~IsNum(b) THEN Num(0)
    ELSE IF b.v = 0 THEN Signed(Sign(a))
    ELSE Num((a.v * Milli) \div b.v)

\* a * e for an Ernst factor e given in ten-thousandths.
FScale(a, e) ==
    IF IsNum(a) THEN Num((a.v * e) \div ErnstUnit)
    ELSE a

FAdd(a, b) ==
    IF a.k = "nan" \/ b.k = "nan" THEN NaN
    ELSE IF IsNum(a) /\ IsNum(b) THEN Num(a.v + b.v)
    ELSE IF IsNum(a) THEN b
    ELSE IF IsNum(b) THEN a
    ELSE IF a.k = b.k THEN a ELSE NaN

RECURSIVE FSum(_)
FSum(s) == IF s = << >> THEN Num(0) ELSE FAdd(Head(s), FSum(Tail(s)))

\* np.mean of a flat array: nan for an empty one (numpy warns, raises nothing).
np_mean(s) ==
    IF s = << >> THEN NaN
    ELSE LET t == FSum(s) IN IF IsNum(t) THEN Num(t.v \div Len(s)) ELSE t

RECURSIVE ISqrtIn(_, _, _)
ISqrtIn(n, lo, hi) ==
    IF lo >= hi THEN lo
    ELSE LET mid == (lo + hi + 1) \div 2
         IN IF mid * mid <= n THEN ISqrtIn(n, mid, hi) ELSE ISqrtIn(n, lo, mid - 1)

\* floor(sqrt(n)) for 0 <= n < 2^30
ISqrt(n) == ISqrtIn(n, 0, 32767)

\* np.sqrt of a value in thousandths: nan for a negative argument.
np_sqrt(x) ==
    IF x.k = "nan" \/ x.k = "ninf" THEN NaN
    ELSE IF x.k = "inf" THEN PInf
    ELSE IF x.v < 0 THEN NaN
    ELSE Num(ISqrt(x.v * Milli))

\* ------------------------------------------------------- Ernst factor
\* Each routine takes TR as a float record (TR in milliseconds) and returns
\* the factor in ten-thousandths. A nan TR fails every comparison.

get_ernst_scaling_strict(tr) ==
    IF tr.k = "none" THEN 10000
    ELSE IF tr.k = "ninf" \/ (tr.k = "num" /\ tr.v < 700) THEN 5745
    ELSE IF tr.k = "num" /\ tr.v < 1000 THEN 7071
    ELSE IF tr.k = "num" /\ tr.v < 1500 THEN 8155
    ELSE 10000

\* qa_with_metrics.get_ernst_scaling: None gives 1.0.
get_ernst_scaling(tr) ==
    IF tr.k = "none" THEN 10000
    ELSE IF tr.k = "ninf" \/ (tr.k = "num" /\ tr.v <= 700) THEN 5745
    ELSE IF tr.k = "num" /\ tr.v <= 1000 THEN 7071
    ELSE IF tr.k = "num" /\ tr.v <= 1500 THEN 8155
    ELSE 10000

\* qa_with_tr_detection.get_ernst_scaling: no None branch; its only caller
\* has replaced None by the default before the call.
get_ernst_scaling_tr_detection(TR) ==
    IF TR.k = "ninf" \/ (TR.k = "num" /\ TR.v <= 700) THEN 5745
    ELSE IF TR.k = "num" /\ TR.v <= 1000 THEN 7071
    ELSE IF TR.k = "num" /\ TR.v <= 1500 THEN 8155
    ELSE 10000

\* qa_run_nophase_V2.process_data_nophase: the same table, inline.
ErnstScaling_V2(TR) ==
    IF TR.k = "ninf" \/ (TR.k = "num" /\ TR.v <= 700) THEN 5745
    ELSE IF TR.k = "num" /\ TR.v <= 1000 THEN 7071
    ELSE IF TR.k = "num" /\ TR.v <= 1500 THEN 8155
    ELSE 10000

\* qa_memory_optimized.calculate_ernst_scaling: the dictionary in insertion
\* order; min(keys, key=|x - tr|) keeps the first of the closest keys.
tr_scaling == << <<1400, 5745>>, <<2000, 10000>>, <<2026, 10000>>, <<2200, 10000>> >>

AbsDiff(a, b) == IF a >= b THEN a - b ELSE b - a

calculate_ernst_scaling(tr) ==
    LET closest == CHOOSE i \in 1..Len(tr_scaling) :
            /\ \A j \in 1..Len(tr_scaling) :
                 AbsDiff(tr_scaling[i][1], tr.v) <= AbsDiff(tr_scaling[j][1], tr.v)
            /\ \A j \in 1..(i - 1) :
                 AbsDiff(tr_scaling[j][1], tr.v) > AbsDiff(tr_scaling[i][1], tr.v)
    IN tr_scaling[closest][2]

\* create_sub003_tsnr_montage_slides.calculate_ernst_scaling: 1.0 on every
\* path (float() of a non-number raises and the bare except passes).
calculate_ernst_scaling_slides(tr_value) ==
    IF tr_value.k = "num" /\ tr_value.v > 0 THEN 10000 ELSE 10000

\* ------------------------------------------------- array helpers (numpy)
RECURSIVE SeqSum(_)
SeqSum(s) == IF s = << >> THEN 0 ELSE Head(s) + SeqSum(Tail(s))

Min2(a, b) == IF a <= b THEN a ELSE b

\* np.max of a non-empty array of numbers
np_max(a) == CHOOSE m \in {a[i] : i \in DOMAIN a} : \A i \in DOMAIN a : a[i] <= m

\* a[mask]: the entries of a selected by a boolean array, in index order
RECURSIVE BoolIndexFrom(_, _, _)
BoolIndexFrom(a, mask, i) ==
    IF i > Len(a) THEN << >>
    ELSE (IF mask[i] THEN << a[i] >> ELSE << >>) \o BoolIndexFrom(a, mask, i + 1)

BoolIndex(a, mask) == BoolIndexFrom(a, mask, 1)

RECURSIVE Insert(_, _)
Insert(x, s) ==
    IF s = << >> THEN << x >>
    ELSE IF x <= Head(s) THEN << x >> \o s
    ELSE << Head(s) >> \o Insert(x, Tail(s))

RECURSIVE Sorted(_)
Sorted(s) == IF s = << >> THEN << >> ELSE Insert(Head(s), Sorted(Tail(s)))

\* np.median of a non-empty array of numbers
np_median(s) ==
    LET t == Sorted(s)
        n == Len(t)
    IN IF n % 2 = 1 THEN t[(n + 1) \div 2] ELSE (t[n \div 2] + t[n \div 2 + 1]) \div 2

\* A voxel's intensities as floats, in thousandths
ToMilli(x) == [t \in DOMAIN x |-> x[t] * Milli]

\* np.mean(x, axis=time) of one voxel's intensities (given in thousandths)
TimeMean(x) == SeqSum(x) \div Len(x)

\* np.std(x, axis=time) of one voxel: the population standard deviation
\* (denominator T). It is 0 exactly when x is constant.
TimeStd(x) ==
    LET T == Len(x)
        sq == [t \in 1..T |-> x[t] * x[t]]
    IN ISqrt((T * SeqSum(sq) - SeqSum(x) * SeqSum(x)) \div (T * T))

\* np.divide(a, b, out=np.zeros_like(a), where=cond): the quotient where cond
\* holds, the untouched 0 of out elsewhere.
np_divide_where(a, b, cond) ==
    [i \in DOMAIN a |-> IF cond[i] THEN FDiv(Num(a[i]), Num(b[i])) ELSE Num(0)]

np_divide_unguarded(a, b, cond) ==
    [i \in DOMAIN a |-> FDiv(Num(a[i]), Num(b[i]))]

\* ------------------------------------ qa_memory_optimized.py: the pipeline
\* detect_tr_from_json: the sidecar's RepetitionTime, or the default 2.0 s.
detect_tr_from_json(json_metadata) ==
    IF json_metadata # None THEN json_metadata ELSE Num(2000)

\* The loop with its last, partial chunk left out.
RECURSIVE TemporalStatsLoop_whole_chunks(_, _, _, _)
TemporalStatsLoop_whole_chunks(data, chunk_size, z_start, acc) ==
    LET nz == Len(data)
        z_end == z_start + chunk_size
    IN IF z_end > nz THEN acc
       ELSE TemporalStatsLoop_whole_chunks(data, chunk_size, z_start + chunk_size,
              [temporal_mean |-> [z \in 1..nz |->
                    IF z_start < z /\ z <= z_end THEN TimeMean(data[z])
                    ELSE acc.temporal_mean[z]],
               temporal_std |-> [z \in 1..nz |->
                    IF z_start < z /\ z <= z_end THEN TimeStd(data[z])
                    ELSE acc.temporal_std[z]]])

\* The chunked temporal statistics: for z_start in range(0, nz, chunk_size).
\* Slices are numbered 1..nz here, so a chunk holds z_start < z <= z_end.
RECURSIVE TemporalStatsLoop(_, _, _, _)
TemporalStatsLoop(data, chunk_size, z_start, acc) ==
    LET nz == Len(data)
        z_end == Min2(z_start + chunk_size, nz)
    IN IF z_start >= nz THEN acc
       ELSE TemporalStatsLoop(data, chunk_size, z_start + chunk_size,
              [temporal_mean |-> [z \in 1..nz |->
                    IF z_start < z /\ z <= z_end THEN TimeMean(data[z])
                    ELSE acc.temporal_mean[z]],
               temporal_std |-> [z \in 1..nz |->
                    IF z_start < z /\ z <= z_end THEN TimeStd(data[z])
                    ELSE acc.temporal_std[z]]])

\* The noise level with the fallback left unscaled.
chunk_noise_level_unscaled_fallback(chunk_mean, chunk_std) ==
    LET background_mask == [i \in DOMAIN chunk_mean |->
                               chunk_mean[i] * 100 < 5 * np_max(chunk_mean)]
    IN IF \E i \in DOMAIN chunk_mean : background_mask[i]
       THEN np_median(BoolIndex(chunk_std, background_mask))
       ELSE np_median(chunk_std)

\* The noise level of one chunk: the median temporal std of its background
\* (mean < 0.05 * max of the chunk), or a tenth of the median std of the
\* whole chunk when it has no background.
chunk_noise_level(chunk_mean, chunk_std) ==
    LET background_mask == [i \in DOMAIN chunk_mean |->
                               chunk_mean[i] * 100 < 5 * np_max(chunk_mean)]
    IN IF \E i \in DOMAIN chunk_mean : background_mask[i]
       THEN np_median(BoolIndex(chunk_std, background_mask))
       ELSE np_median(chunk_std) \div 10

\* chunk_isnr = np.divide(chunk_mean, noise_level, out=zeros, where=chunk_mean > 0)
chunk_isnr_unguarded(chunk_mean, noise_level) ==
    np_divide_unguarded(chunk_mean, [i \in DOMAIN chunk_mean |-> noise_level],
                        [i \in DOMAIN chunk_mean |-> chunk_mean[i] > 0])

chunk_isnr(chunk_mean, noise_level) ==
    np_divide_where(chunk_mean, [i \in DOMAIN chunk_mean |-> noise_level],
                    [i \in DOMAIN chunk_mean |-> chunk_mean[i] > 0])

\* The chunked iSNR loop; acc.noise_level[z] keeps the level of z's chunk.
RECURSIVE IsnrLoop(_, _, _, _, _)
IsnrLoop(temporal_mean, temporal_std, chunk_size, z_start, acc) ==
    LET nz == Len(temporal_mean)
        z_end == Min2(z_start + chunk_size, nz)
        chunk_mean == SubSeq(temporal_mean, z_start + 1, z_end)
        chunk_std == SubSeq(temporal_std, z_start + 1, z_end)
        noise_level == chunk_noise_level(chunk_mean, chunk_std)
        isnr == chunk_isnr(chunk_mean, noise_level)
    IN IF z_start >= nz THEN acc
       ELSE IsnrLoop(temporal_mean, temporal_std, chunk_size, z_start + chunk_size,
              [isnr_map |-> [z \in 1..nz |->
                    IF z_start < z /\ z <= z_end THEN isnr[z - z_start]
                    ELSE acc.isnr_map[z]],
               noise_level |-> [z \in 1..nz |->
                    IF z_start < z /\ z <= z_end THEN noise_level
                    ELSE acc.noise_level[z]]])

\* tsnr = np.divide(temporal_mean, temporal_std, out=zeros, where=temporal_std != 0)
tsnr_map_unguarded(temporal_mean, temporal_std) ==
    np_divide_unguarded(temporal_mean, temporal_std,
                        [z \in DOMAIN temporal_std |-> temporal_std[z] # 0])

tsnr_map(temporal_mean, temporal_std) ==
    np_divide_where(temporal_mean, temporal_std,
                    [z \in DOMAIN temporal_std |-> temporal_std[z] # 0])

\* brain_mask = mean_img > 0.1 * np.max(mean_img)
brain_mask_memory_optimized(mean_img) ==
    [z \in DOMAIN mean_img |-> mean_img[z] * 10 > np_max(mean_img)]

\* process_data_memory_optimized(file_path, output_dir, tr): its locals and the
\* summary it returns. file is what the path holds: the volume and the
\* sidecar's RepetitionTime (None when the sidecar or the key is missing).
process_data_memory_optimized(file, tr_arg, chunk_size) ==
    LET tr == IF tr_arg = None THEN detect_tr_from_json(file.json_tr) ELSE tr_arg
        ernst_scaling == calculate_ernst_scaling(tr)
        data == [z \in DOMAIN file.data |-> ToMilli(file.data[z])]
        nz == Len(data)
        mean_img == [z \in 1..nz |-> TimeMean(data[z])]
        zeros == [z \in 1..nz |-> 0]
        stats == TemporalStatsLoop(data, chunk_size, 0,
                    [temporal_mean |-> zeros, temporal_std |-> zeros])
        tsnr == tsnr_map(stats.temporal_mean, stats.temporal_std)
        tsnr_scaled == [z \in 1..nz |-> FScale(tsnr[z], ernst_scaling)]
        brain_mask == brain_mask_memory_optimized(mean_img)
        mean_tsnr == np_mean(BoolIndex(tsnr_scaled, brain_mask))
        isnr == IsnrLoop(stats.temporal_mean, stats.temporal_std, chunk_size, 0,
                    [isnr_map |-> [z \in 1..nz |-> Num(0)], noise_level |-> zeros])
        isnr_scaled == [z \in 1..nz |-> FScale(isnr.isnr_map[z], ernst_scaling)]
        mean_isnr == np_mean(BoolIndex(isnr_scaled, brain_mask))
    IN [raised |-> "",
        tr_substituted |-> (tr_arg = None /\ file.json_tr = None),
        temporal_mean |-> stats.temporal_mean,
        temporal_std |-> stats.temporal_std,
        tsnr |-> tsnr,
        tsnr_scaled |-> tsnr_scaled,
        brain_mask |-> brain_mask,
        noise_level |-> isnr.noise_level,
        isnr_map |-> isnr.isnr_map,
        isnr_scaled |-> isnr_scaled,
        summary |-> [file |-> "basename",
                     shape |-> <<1, 1, nz, Len(data[1])>>,
                     tr |-> tr,
                     ernst_scaling |-> Num(ernst_scaling),
                     mean_tsnr |-> mean_tsnr,
                     mean_isnr |-> mean_isnr,
                     voxel_size |-> <<1, 1, 1>>,
                     processing_method |-> "memory_optimized"]]

\* --------------------------- qa_with_tr_detection.py: process_data_nophase
\* get_tr_from_json of qa_with_tr_detection.py: float(RepetitionTime) when the
\* key is there (is not None), else None.
get_tr_from_json_tr_detection(json_tr) == json_tr

\* The TR with the sidecar consulted whenever a path is given, the argument
\* used only when the sidecar has no RepetitionTime.
TR_from_sources_sidecar_first(TR_arg, path, json_tr) ==
    IF path /\ get_tr_from_json_tr_detection(json_tr) # None
    THEN [TR |-> get_tr_from_json_tr_detection(json_tr), sidecar_read |-> TRUE]
    ELSE [TR |-> TR_arg, sidecar_read |-> path]

\* if TR is None and nifti_path is not None: TR = get_tr_from_json(nifti_path)
\* The TR after this statement, and whether the sidecar was read.
TR_from_sources(TR_arg, path, json_tr) ==
    IF TR_arg = None /\ path
    THEN [TR |-> get_tr_from_json_tr_detection(json_tr), sidecar_read |-> TRUE]
    ELSE [TR |-> TR_arg, sidecar_read |-> FALSE]

\* process_data_nophase: the TR it resolves and the Ernst factor it applies to
\* the tSNR-per-unit-time map. path is whether a nifti_path was passed; raises
\* is whether its plotting and file output raise (the environment decides).
process_data_nophase(TR_arg, path, json_tr, raises) ==
    LET detected == TR_from_sources(TR_arg, path, json_tr)
        TR == IF detected.TR = None THEN Num(1400) ELSE detected.TR
    IN [TR |-> TR,
        ErnstScaling |-> Num(get_ernst_scaling_tr_detection(TR)),
        tr_substituted |-> (detected.TR = None),
        sidecar_read |-> detected.sidecar_read,
        raised |-> IF raises THEN "nophase" ELSE ""]

\* qa_run_nophase_V2.py: get_tr_from_json (the same test, is not None) and the
\* TR resolution of its process_data_nophase, with the Ernst table inline.
get_tr_from_json_V2(json_tr) == json_tr

process_data_nophase_V2(TR_arg, path, json_tr, raises) ==
    LET detected == IF TR_arg = None /\ path
                    THEN [TR |-> get_tr_from_json_V2(json_tr), sidecar_read |-> TRUE]
                    ELSE [TR |-> TR_arg, sidecar_read |-> FALSE]
        TR == IF detected.TR = None THEN Num(1400) ELSE detected.TR
    IN [TR |-> TR,
        ErnstScaling |-> Num(ErnstScaling_V2(TR)),
        tr_substituted |-> (detected.TR = None),
        sidecar_read |-> detected.sidecar_read,
        raised |-> IF raises THEN "nophase" ELSE ""]

\* ------------------------------- fMRI_report_python.functions.snr (Tsnr, Isnr)
\* snr.Tsnr(pixel_array, affine): the tSNR map of the specification, section
\* 4.4: mean / std over time where std != 0, else 0; a volume of fewer than two
\* time points is a DegenerateVolume (section 7).
Tsnr(pixel_array) ==
    LET temporal_mean == [z \in DOMAIN pixel_array |-> TimeMean(pixel_array[z])]
        temporal_std == [z \in DOMAIN pixel_array |-> TimeStd(pixel_array[z])]
    IN IF Len(pixel_array[1]) < 2
       THEN [raised |-> "DegenerateVolume", tsnr_map |-> << >>]
       ELSE [raised |-> "",
             tsnr_map |-> np_divide_where(temporal_mean, temporal_std,
                             [z \in DOMAIN pixel_array |-> temporal_std[z] # 0])]

Abs(x) == IF x < 0 THEN -x ELSE x

\* snr.Isnr(pixel_array, affine, noise_mask): sections 4.3 and 4.5 of the
\* specification. The noise level of a voxel is |noise_mask|; a reference that
\* is zero everywhere is an UndefinedNoiseLevel (section 7, scenario B); the
\* map is mean / noise where mean > 0 and noise != 0, else 0.
Isnr(pixel_array, noise_mask) ==
    LET temporal_mean == [z \in DOMAIN pixel_array |-> TimeMean(pixel_array[z])]
        noise == [z \in DOMAIN noise_mask |-> Abs(noise_mask[z])]
    IN IF \A z \in DOMAIN noise : noise[z] = 0
       THEN [raised |-> "UndefinedNoiseLevel", isnr |-> << >>, noise |-> << >>]
       ELSE [raised |-> "",
             isnr |-> np_divide_where(temporal_mean, noise,
                         [z \in DOMAIN noise |-> temporal_mean[z] > 0 /\ noise[z] # 0]),
             noise |-> [z \in DOMAIN noise |-> Num(noise[z])]]

\* ------------------------------------ qa_with_metrics.py: the metrics record
\* get_tr_from_json of qa_with_metrics.py: float(RepetitionTime) when the value
\* is truthy, else None.
get_tr_from_json(json_tr) == IF Truthy(json_tr) THEN json_tr ELSE None

\* a[mask_data > 0] for the (1, 1, nz) map a and a mask of any shape, as numpy
\* does it: a boolean index must match the leading axes of a, one by one; it
\* may have fewer axes than a (it then selects whole sub-arrays along the
\* remaining axes), never more.
bool_index_raises(a_shape, mask_data) ==
    \/ Len(mask_data.shape) > Len(a_shape)
    \/ \E i \in 1..Len(mask_data.shape) :
          i <= Len(a_shape) /\ mask_data.shape[i] # a_shape[i]

bool_index(a, mask_data) ==
    IF Len(mask_data.shape) = 3
    THEN BoolIndex(a, [z \in DOMAIN a |-> mask_data.vals[z] > 0])
    ELSE IF mask_data.vals[1] > 0 THEN a ELSE << >>

\* The largest float64, as np.nan_to_num puts it in place of +inf (and its
\* negation in place of -inf): a stand-in above every intensity of the model.
FloatMax == 2000000000

\* np.nan_to_num(x, nan=0.0) on one value: nan becomes 0.0, +inf and -inf the
\* largest and the most negative float.
np_nan_to_num(x) ==
    IF x.k = "nan" THEN Num(0)
    ELSE IF x.k = "inf" THEN Num(FloatMax)
    ELSE IF x.k = "ninf" THEN Num(-FloatMax)
    ELSE x

\* np.std of a flat array of numbers in thousandths: nan for an empty one.
np_std(s) == IF s = << >> THEN NaN ELSE Num(TimeStd(s))

NumSeq(s) == [i \in DOMAIN s |-> Num(s[i])]

\* The mask with the threshold itself included (>=).
brain_mask_5_percent_inclusive(tmean_img) ==
    [z \in DOMAIN tmean_img |-> tmean_img[z] * 100 >= 5 * np_max(tmean_img)]

\* brain_mask = tmean_img > 0.05 * np.max(tmean_img)
brain_mask_5_percent(tmean_img) ==
    [z \in DOMAIN tmean_img |-> tmean_img[z] * 100 > 5 * np_max(tmean_img)]

\* if TR: mean_tsnr / np.sqrt(TR), else None
tsnr_per_unit_time(TR, mean_tsnr) ==
    IF Truthy(TR) THEN FDiv(mean_tsnr, np_sqrt(TR)) ELSE None

\* The volume with every time point kept, the noise scan included.
keep_noise_scan(imgm_cla) == imgm_cla

\* imgm_cla_nn = imgm_cla[:, :, :, :-1]: the volume without its last time point.
remove_noise_scan(imgm_cla) ==
    [z \in DOMAIN imgm_cla |-> SubSeq(imgm_cla[z], 1, Len(imgm_cla[z]) - 1)]

\* The invocations with the except clause making no second attempt.
nophase_invocations_no_fallback(e, nophase_call) ==
    IF e \in {"", "nophase"} THEN <<nophase_call>> ELSE << >>

\* The invocations of process_data_nophase in one call, e being the exception
\* raised in the try block ("" for none): the call that ends the try block is
\* reached when the metric computation did not raise; the except clause calls
\* it again, in a try block of its own, after any exception.
nophase_invocations(e, nophase_call) ==
    IF e = "" THEN <<nophase_call>>
    ELSE IF e = "nophase" THEN <<nophase_call, nophase_call>>
    ELSE <<nophase_call>>

\* process_data_with_metrics(imgm_cla, ..., mask_data, TR, nifti_path): the
\* metrics dictionary it returns, built key by key as the code does, with the
\* calls of process_data_nophase it made and its locals noise_volume,
\* brain_mask, masked_noise (the noise_mask argument of snr.Isnr) and
\* tsnr_obj_cla.tsnr_map. m0 is the dictionary before the try
\* block; each later stage adds its keys, or raises into the except clause,
\* which keeps the keys set so far.
process_data_with_metrics(file, mask_data, TR, path, nophase_raises) ==
    LET ernst_factor == IF Truthy(TR) THEN get_ernst_scaling(TR) ELSE 10000
        nz == Len(file.data)
        imgm_cla == [z \in 1..nz |-> [t \in DOMAIN file.data[z] |->
                        (file.data[z][t] * Milli * ernst_factor) \div ErnstUnit]]
        shape == <<1, 1, nz, Len(file.data[1])>>
        m0 == [filename |-> "core_filename",
               tr |-> IF Truthy(TR) THEN TR ELSE Unknown,
               ernst_factor |-> Num(ernst_factor),
               shape |-> shape,
               processing_successful |-> TRUE]
        mean_img == [z \in 1..nz |-> TimeMean(imgm_cla[z])]
        m1 == m0 @@ ("mean_intensity" :> np_mean(NumSeq(mean_img)))
        noise_volume == [z \in 1..nz |->
                            np_nan_to_num(Num(imgm_cla[z][Len(imgm_cla[z])])).v]
        brain_mask == brain_mask_5_percent(mean_img)
        masked_noise == [z \in 1..nz |-> IF brain_mask[z] THEN noise_volume[z] ELSE 0]
        isnr_obj_cla == Isnr(imgm_cla, masked_noise)
        m2 == m1 @@ ("isnr" :> np_mean(isnr_obj_cla.isnr))
                 @@ ("noise_value" :> np_mean(isnr_obj_cla.noise))
        imgm_cla_nn == remove_noise_scan(imgm_cla)
        tsnr_obj_cla == Tsnr(imgm_cla_nn)
        mean_tsnr == np_mean(tsnr_obj_cla.tsnr_map)
        m3 == m2 @@ ("tsnr" :> mean_tsnr)
                 @@ ("tsnr_per_unit_time" :> tsnr_per_unit_time(TR, mean_tsnr))
        masked_tsnr == IF mask_data = None THEN None
                       ELSE np_mean(bool_index(tsnr_obj_cla.tsnr_map, mask_data))
        signal == BoolIndex(mean_img, brain_mask)
        signal_std == np_std(signal)
        ssn == IF signal_std.k = "num" /\ signal_std.v > 0
               THEN FDiv(np_mean(NumSeq(signal)), signal_std) ELSE Num(0)
        m4 == m3 @@ ("masked_tsnr" :> masked_tsnr) @@ ("ssn" :> ssn)
        nophase == process_data_nophase(TR, path, file.json_tr, nophase_raises)
        Failed(m, e) == [metrics |-> [m EXCEPT !.processing_successful = FALSE]
                                        @@ ("error" :> e),
                         nophase_calls |-> nophase_invocations(e, nophase),
                         noise_volume |-> noise_volume,
                         brain_mask |-> brain_mask,
                         masked_noise |-> masked_noise,
                         tsnr_map |-> tsnr_obj_cla.tsnr_map]
    IN IF isnr_obj_cla.raised # "" THEN Failed(m1, isnr_obj_cla.raised)
       ELSE IF tsnr_obj_cla.raised # "" THEN Failed(m2, tsnr_obj_cla.raised)
       ELSE IF mask_data # None /\ bool_index_raises(<<1, 1, nz>>, mask_data)
            THEN Failed(m3, "IndexError")
       ELSE IF nophase.raised # "" THEN Failed(m4, nophase.raised)
       ELSE [metrics |-> m4, nophase_calls |-> nophase_invocations("", nophase),
             noise_volume |-> noise_volume,
             brain_mask |-> brain_mask,
             masked_noise |-> masked_noise,
             tsnr_map |-> tsnr_obj_cla.tsnr_map]

\* One pass of the loop body of run_qa_with_metrics on file number i of the
\* directory listing: what it appends to results. load_data raising (on the
\* file or on the mask found in the directory) leaves the try block through
\* "except Exception: continue", before results.append.
loop_body_appends(i, f, dir_mask, nophase_raises) ==
    LET detected_tr == get_tr_from_json(f.file.json_tr)
        mask_data == IF dir_mask.found THEN dir_mask.mask_data ELSE None
        done == process_data_with_metrics(f.file, mask_data, detected_tr, TRUE,
                                          nophase_raises)
    IN IF ~f.readable THEN << >>
       ELSE IF dir_mask.found /\ ~dir_mask.readable THEN << >>
       ELSE << [output_dir |-> i, metrics |-> done.metrics] >>

\* ------------------------- run_qa_with_ppt_V2.py: run_qa_with_powerpoint
\* metrics.get(key, default)
dict_get(metrics, key, default) ==
    IF key \in DOMAIN metrics THEN metrics[key] ELSE default

\* The summary_info dictionary built for one (output_dir, metrics) result. The
\* shape string "XxYxZxT" is kept as the four numbers it prints.
summary_info(metrics) ==
    [filename |-> dict_get(metrics, "filename", "Unknown"),
     tr |-> dict_get(metrics, "tr", Unknown),
     ernst |-> dict_get(metrics, "ernst_factor", Num(10000)),
     shape |-> IF "shape" \in DOMAIN metrics THEN SubSeq(metrics.shape, 1, 4)
               ELSE << >>,
     isnr |-> dict_get(metrics, "isnr", Num(0)),
     tsnr |-> dict_get(metrics, "tsnr", Num(0)),
     tsnr_unit |-> dict_get(metrics, "tsnr_per_unit_time", Num(0)),
     ssn |-> dict_get(metrics, "ssn", Num(0)),
     processing_time |-> 0]

\* ------------------------------------------------------------------ inputs
\* TR values in milliseconds: the breakpoints, their neighbours, the keys of
\* tr_scaling, and the non-positive values a sidecar or a caller can hold.
TRValues == {-1000, 0, 500, 700, 710, 1000, 1010, 1400, 1500, 1510, 1700, 2000, 3000}
KnownTR == {Num(t) : t \in TRValues}

\* The TR inputs of the pipelines: absent, negative, zero, one per band.
PipelineTR == {None, Num(-1000), Num(0), Num(700), Num(1400), Num(2000)}

\* The time series of one voxel (time points 0..3; the last one is the noise
\* scan of the LastVolumeNoise pipelines): constant zero and constant positive
\* (temporal std 0), varying with positive, zero and negative mean, a
\* varying one whose noise scan is 0, and one of positive mean whose noise
\* scan is negative.
Series == { <<0, 0, 0, 0>>, <<2, 2, 2, 2>>, <<1, 3, 2, 2>>,
            <<-1, 1, -1, 1>>, <<-2, 0, -2, -4>>, <<4, 2, 3, 0>>, <<3, 3, 3, -1>> }

Volumes == UNION {[1..nz -> Series] : nz \in 1..MaxNz}

\* A file on disk: the volume and the RepetitionTime of its sidecar.
Files == [data : Volumes, json_tr : {None, Num(700), Num(1400)}]

\* Files whose volume has a single time point (shape (1, 1, 1, 1)).
SingleVolumeFiles == [data : {<< <<0>> >>, << <<3>> >>}, json_tr : {None}]

\* chunk_size is 10 in qa_memory_optimized.py; 1 and 2 split the volumes here.
ChunkSizes == {1, 2, 10}

\* The external masks a caller can pass for a volume of nz slices (spatial
\* shape (1, 1, nz)): none; a mask of that shape, any voxels set; one slice too
\* many; a 2-D mask (1, 1), the leading axes of the volume; a 4-D mask.
Masks(nz) ==
    {None}
    \cup {[shape |-> <<1, 1, nz>>, vals |-> v] : v \in [1..nz -> {0, 1}]}
    \cup {[shape |-> <<1, 1, nz + 1>>, vals |-> [z \in 1..(nz + 1) |-> 1]],
          [shape |-> <<1, 1>>, vals |-> <<1>>],
          [shape |-> <<1, 1, nz, 1>>, vals |-> [z \in 1..nz |-> 1]]}

AllMasks == UNION {Masks(nz) : nz \in 1..MaxNz}

\* The files a directory listing can hold: a readable acquisition whose metrics
\* compute, a readable one whose noise scan is zero, and one load_data cannot
\* read.
BatchFiles ==
    { [readable |-> TRUE, file |-> [data |-> << <<1, 3, 2, 2>> >>, json_tr |-> Num(700)]],
      [readable |-> TRUE, file |-> [data |-> << <<4, 2, 3, 0>> >>, json_tr |-> None]],
      [readable |-> FALSE, file |-> [data |-> << <<1, 3, 2, 2>> >>, json_tr |-> None]] }

\* What find_mask_file finds in the directory: nothing, a mask load_data reads
\* (of the shape of the volumes, or with one slice too many), or one it cannot
\* read.
DirMasks ==
    { [found |-> FALSE, readable |-> FALSE, mask_data |-> None],
      [found |-> TRUE, readable |-> TRUE,
       mask_data |-> [shape |-> <<1, 1, 1>>, vals |-> <<1>>]],
      [found |-> TRUE, readable |-> TRUE,
       mask_data |-> [shape |-> <<1, 1, 2>>, vals |-> <<1, 1>>]],
      [found |-> TRUE, readable |-> FALSE, mask_data |-> None] }

\* The inputs of the chunked statistics loop on its own: volumes of up to
\* MaxStatsNz slices, chunk sizes that divide nz, that do not, and that exceed it.
StatsSeries == { <<0, 0, 0, 0>>, <<1, 3, 2, 2>>, <<4, 2, 3, 0>> }
StatsVolumes == UNION {[1..nz -> StatsSeries] : nz \in 1..MaxStatsNz}
StatsChunkSizes == 1..(MaxStatsNz + 1)

\* The inputs of the heuristic brain masks on their own: mean images (in
\* thousandths) with a voxel at exactly 5 % of the maximum (0.25 of 5.0), one
\* between 5 % and 10 % of it (0.25 of 4.0), dark voxels, and voxels of
\* negative mean.
MaskMeans == {-1000, 0, 250, 4000, 5000}
MeanImages == UNION {[1..n -> MaskMeans] : n \in 1..MaxMaskVoxels}

FileLists == UNION {[1..n -> BatchFiles] : n \in 0..MaxFiles}

\* ------------------------------------------------------------------- state
VARIABLES
    prog,     \* the entry point this run exercises
    pc,       \* its position: "ready", then "done"
    arg,      \* its arguments and the files it reads
    ernst,    \* what each Ernst routine returned for arg.tr (None: not called)
    mem,      \* process_data_memory_optimized: its locals and its summary
    met,      \* process_data_with_metrics: the metrics it returned, the calls
              \* of process_data_nophase it made
    nophase,  \* process_data_nophase: the TR and Ernst factor it resolved
    batch     \* run_qa_with_metrics: the loop index and the results list;
              \* run_qa_with_powerpoint: the summary_data built from them

vars == <<prog, pc, arg, ernst, mem, met, nophase, batch>>

NoErnst == [qa_with_metrics |-> None, tr_detection |-> None, nophase_V2 |-> None,
            memory_optimized |-> None, slides |-> None]

InitErnst ==
    /\ prog = "ernst"
    /\ pc = "ready"
    /\ arg \in [tr : KnownTR]
    /\ ernst = NoErnst
    /\ mem = None

\* The temporal-statistics loop of process_data_memory_optimized, with the
\* chunk size as an input.
InitChunkStats ==
    /\ prog = "chunk_stats"
    /\ pc = "ready"
    /\ arg \in [data : StatsVolumes, chunk_size : StatsChunkSizes]
    /\ ernst = NoErnst
    /\ mem = None

\* The brain mask of each pipeline on the same mean image; an empty mask
\* stands for "not computed yet".
InitBrainMask ==
    /\ prog = "brain_mask"
    /\ pc = "ready"
    /\ arg \in [mean_img : MeanImages]
    /\ ernst = NoErnst
    /\ mem = [with_metrics |-> << >>, memory_optimized |-> << >>]

\* python qa_memory_optimized.py <input_file> <output_dir> [tr]
InitMemoryOptimized ==
    /\ prog = "memory_optimized"
    /\ pc = "ready"
    /\ arg \in [file : Files \cup SingleVolumeFiles, tr : PipelineTR,
                chunk_size : ChunkSizes]
    /\ (arg.tr # None => arg.file.json_tr \in {None, Num(700)})
    /\ ernst = NoErnst
    /\ mem = None

\* process_data_with_metrics(imgm_cla, affine, name, output_dir, mask_data, TR,
\* nifti_path): the sidecar is read only when TR is None and a path is given.
InitWithMetrics ==
    /\ prog = "with_metrics"
    /\ pc = "ready"
    /\ arg \in [file : Files, mask_data : AllMasks, TR : PipelineTR,
                nifti_path : BOOLEAN, nophase_raises : BOOLEAN]
    /\ arg.mask_data \in Masks(Len(arg.file.data))
    /\ (arg.TR # None => ~arg.nifti_path)
    /\ (~arg.nifti_path => arg.file.json_tr = None)
    /\ ernst = NoErnst
    /\ mem = None

\* process_data_nophase(imgm_cla, affine, name, output_dir, mask_data, TR,
\* nifti_path) called on its own (run_qa_analysis_with_tr_detection passes
\* TR=None and the path).
InitNophase ==
    /\ prog = "nophase"
    /\ pc = "ready"
    /\ arg \in [module : {"qa_with_tr_detection", "qa_run_nophase_V2"},
                file : Files, TR : PipelineTR, nifti_path : BOOLEAN,
                nophase_raises : BOOLEAN]
    /\ Len(arg.file.data) = 1
    /\ ernst = NoErnst
    /\ mem = None

\* run_qa_with_metrics(func_dir, pattern, extension): the directory, the
\* files glob finds in it (in discovery order) and the mask file beside them.
InitBatch ==
    /\ prog = "batch"
    /\ pc = "ready"
    /\ arg \in [dir_exists : BOOLEAN, files_found : FileLists, dir_mask : DirMasks,
                nophase_raises : BOOLEAN]
    /\ ernst = NoErnst
    /\ mem = None

Init ==
    /\ (InitErnst \/ InitNophase \/ InitWithMetrics \/ InitMemoryOptimized \/ InitBatch
          \/ InitChunkStats \/ InitBrainMask)
    /\ met = None
    /\ nophase = None
    /\ batch = [i |-> 1, results |-> << >>, returned |-> None, summary_data |-> None]

\* One call of each Ernst routine on the same TR.
CallGetErnstScaling ==
    /\ prog = "ernst" /\ ernst.qa_with_metrics = None
    /\ ernst' = [ernst EXCEPT !.qa_with_metrics = Num(get_ernst_scaling(arg.tr))]
    /\ UNCHANGED <<prog, pc, arg, mem, met, nophase, batch>>

CallGetErnstScalingTrDetection ==
    /\ prog = "ernst" /\ ernst.tr_detection = None
    /\ ernst' = [ernst EXCEPT !.tr_detection = Num(get_ernst_scaling_tr_detection(arg.tr))]
    /\ UNCHANGED <<prog, pc, arg, mem, met, nophase, batch>>

CallErnstScalingV2 ==
    /\ prog = "ernst" /\ ernst.nophase_V2 = None
    /\ ernst' = [ernst EXCEPT !.nophase_V2 = Num(ErnstScaling_V2(arg.tr))]
    /\ UNCHANGED <<prog, pc, arg, mem, met, nophase, batch>>

CallCalculateErnstScaling ==
    /\ prog = "ernst" /\ ernst.memory_optimized = None
    /\ ernst' = [ernst EXCEPT !.memory_optimized = Num(calculate_ernst_scaling(arg.tr))]
    /\ UNCHANGED <<prog, pc, arg, mem, met, nophase, batch>>

CallCalculateErnstScalingSlides ==
    /\ prog = "ernst" /\ ernst.slides = None
    /\ ernst' = [ernst EXCEPT !.slides = Num(calculate_ernst_scaling_slides(arg.tr))]
    /\ UNCHANGED <<prog, pc, arg, mem, met, nophase, batch>>

CallBrainMask5Percent ==
    /\ prog = "brain_mask" /\ mem.with_metrics = << >>
    /\ mem' = [mem EXCEPT !.with_metrics = brain_mask_5_percent(arg.mean_img)]
    /\ UNCHANGED <<prog, pc, arg, ernst, met, nophase, batch>>

CallBrainMaskMemoryOptimized ==
    /\ prog = "brain_mask" /\ mem.memory_optimized = << >>
    /\ mem' = [mem EXCEPT !.memory_optimized = brain_mask_memory_optimized(arg.mean_img)]
    /\ UNCHANGED <<prog, pc, arg, ernst, met, nophase, batch>>

CallTemporalStatsLoop ==
    /\ prog = "chunk_stats" /\ pc = "ready"
    /\ mem' = LET data == [z \in DOMAIN arg.data |-> ToMilli(arg.data[z])]
                  zeros == [z \in DOMAIN arg.data |-> 0]
              IN TemporalStatsLoop(data, arg.chunk_size, 0,
                     [temporal_mean |-> zeros, temporal_std |-> zeros])
    /\ pc' = "done"
    /\ UNCHANGED <<prog, arg, ernst, met, nophase, batch>>

CallProcessDataMemoryOptimized ==
    /\ prog = "memory_optimized" /\ pc = "ready"
    /\ mem' = process_data_memory_optimized(arg.file, arg.tr, arg.chunk_size)
    /\ pc' = "done"
    /\ UNCHANGED <<prog, arg, ernst, met, nophase, batch>>

CallProcessDataWithMetrics ==
    /\ prog = "with_metrics" /\ pc = "ready"
    /\ met' = process_data_with_metrics(arg.file, arg.mask_data, arg.TR,
                                        arg.nifti_path, arg.nophase_raises)
    /\ pc' = "done"
    /\ UNCHANGED <<prog, arg, ernst, mem, nophase, batch>>

CallProcessDataNophase ==
    /\ prog = "nophase" /\ pc = "ready"
    /\ arg.module = "qa_with_tr_detection"
    /\ nophase' = process_data_nophase(arg.TR, arg.nifti_path, arg.file.json_tr,
                                       arg.nophase_raises)
    /\ pc' = "done"
    /\ UNCHANGED <<prog, arg, ernst, mem, met, batch>>

CallProcessDataNophaseV2 ==
    /\ prog = "nophase" /\ pc = "ready"
    /\ arg.module = "qa_run_nophase_V2"
    /\ nophase' = process_data_nophase_V2(arg.TR, arg.nifti_path, arg.file.json_tr,
                                          arg.nophase_raises)
    /\ pc' = "done"
    /\ UNCHANGED <<prog, arg, ernst, mem, met, batch>>

\* run_qa_with_metrics: the early "return []" for a missing directory or an
\* empty listing.
RunQaReturnEmpty ==
    /\ prog = "batch" /\ pc = "ready"
    /\ ~arg.dir_exists \/ arg.files_found = << >>
    /\ batch' = [batch EXCEPT !.returned = << >>]
    /\ pc' = "done"
    /\ UNCHANGED <<prog, arg, ernst, mem, met, nophase>>

\* run_qa_with_metrics: one iteration of "for i, file_path in enumerate(...)".
RunQaLoopBody ==
    /\ prog = "batch" /\ pc \in {"ready", "loop"}
    /\ arg.dir_exists /\ batch.i <= Len(arg.files_found)
    /\ batch' = [batch EXCEPT
                   !.i = @ + 1,
                   !.results = @ \o loop_body_appends(batch.i, arg.files_found[batch.i],
                                                      arg.dir_mask, arg.nophase_raises)]
    /\ pc' = "loop"
    /\ UNCHANGED <<prog, arg, ernst, mem, met, nophase>>

\* run_qa_with_metrics: "return results" after the loop.
RunQaReturn ==
    /\ prog = "batch" /\ pc = "loop"
    /\ batch.i > Len(arg.files_found)
    /\ batch' = [batch EXCEPT !.returned = batch.results]
    /\ pc' = "done"
    /\ UNCHANGED <<prog, arg, ernst, mem, met, nophase>>

\* run_qa_with_powerpoint, after run_qa_with_metrics returned: "if not
\* results: return False".
RunQaWithPowerpointNoResults ==
    /\ prog = "batch" /\ pc = "done"
    /\ batch.returned = << >>
    /\ pc' = "returned_false"
    /\ UNCHANGED <<prog, arg, ernst, mem, met, nophase, batch>>

\* run_qa_with_powerpoint: the loop that fills summary_data from the results.
RunQaWithPowerpointSummary ==
    /\ prog = "batch" /\ pc = "done"
    /\ batch.returned # << >>
    /\ batch' = [batch EXCEPT !.summary_data =
                   [i \in DOMAIN batch.returned |-> summary_info(batch.returned[i].metrics)]]
    /\ pc' = "summarised"
    /\ UNCHANGED <<prog, arg, ernst, mem, met, nophase>>

Next ==
    \/ RunQaReturnEmpty
    \/ RunQaLoopBody
    \/ RunQaReturn
    \/ RunQaWithPowerpointNoResults
    \/ RunQaWithPowerpointSummary
    \/ CallBrainMask5Percent
    \/ CallBrainMaskMemoryOptimized
    \/ CallTemporalStatsLoop
    \/ CallProcessDataMemoryOptimized
    \/ CallProcessDataWithMetrics
    \/ CallProcessDataNophase
    \/ CallProcessDataNophaseV2
    \/ CallGetErnstScaling
    \/ CallGetErnstScalingTrDetection
    \/ CallErnstScalingV2
    \/ CallCalculateErnstScaling
    \/ CallCalculateErnstScalingSlides

Spec == Init /\ [][Next]_vars

\* process_data_with_metrics on its own, called without an external mask and
\* with a process_data_nophase that does not raise.
InitNoiseScan ==
    /\ InitWithMetrics
    /\ arg.mask_data = None /\ ~arg.nophase_raises
    /\ met = None
    /\ nophase = None
    /\ batch = [i |-> 1, results |-> << >>, returned |-> None, summary_data |-> None]

NextNoiseScan == CallProcessDataWithMetrics

SpecNoiseScan == InitNoiseScan /\ [][NextNoiseScan]_vars

\* ------------------------------------------------------------------ claims

\* The four-step table of the specification, section 4.6, TR in milliseconds.
FourStep(t) ==
    IF t <= 700 THEN 5745 ELSE IF t <= 1000 THEN 7071
    ELSE IF t <= 1500 THEN 8155 ELSE 10000

\* The eight test points of the specification and their factors.
C1_Points == << <<500, 5745>>, <<700, 5745>>, <<710, 7071>>, <<1000, 7071>>,
                <<1010, 8155>>, <<1500, 8155>>, <<1510, 10000>>, <<3000, 10000>> >>

C1_Routines == {"qa_with_metrics", "tr_detection", "nophase_V2"}

\* C1: for every known TR each get_ernst_scaling (qa_with_metrics,
\* qa_with_tr_detection, the inline table of qa_run_nophase_V2) returns the
\* four-step value: 0.5745 up to 0.7 s, 0.7071 up to 1.0 s, 0.8155 up to 1.5 s,
\* 1.0 above, with the eight listed points mapping to the eight listed values.
C1_ErnstStepFunction ==
    prog = "ernst" =>
        \A r \in C1_Routines :
            ernst[r] # None =>
                /\ ernst[r] = Num(FourStep(arg.tr.v))
                /\ \A i \in 1..Len(C1_Points) :
                       arg.tr.v = C1_Points[i][1] => ernst[r].v = C1_Points[i][2]

C1_Witness ==
    /\ prog = "ernst"
    /\ arg.tr = Num(700)
    /\ \A r \in C1_Routines : ernst[r] = Num(5745)

\* C2: every Ernst routine of the repository returns the value of the
\* four-breakpoint table: the closest-key lookup of the memory-optimized
\* pipeline and the routine of the tSNR-slide script agree with it on every TR
\* (stated on the positive ones, the TRs an acquisition can have).
C2_AllRoutinesAgree ==
    (prog = "ernst" /\ arg.tr.v > 0) =>
        /\ ernst.memory_optimized # None => ernst.memory_optimized = Num(FourStep(arg.tr.v))
        /\ ernst.slides # None => ernst.slides = Num(FourStep(arg.tr.v))

MemDone == prog = "memory_optimized" /\ pc = "done"

\* A TR an acquisition can have: a positive number of seconds.
PositiveTR(t) == t.k = "num" /\ t.v > 0

\* C5: in process_data_memory_optimized, for every voxel, a temporal standard
\* deviation of 0 gives a tSNR entry of exactly 0 before and after the Ernst
\* scaling, never NaN or Inf; any other voxel gets temporal_mean / temporal_std,
\* times the Ernst factor in the scaled map.
C5_TsnrZeroGuard ==
    MemDone =>
        \A z \in DOMAIN mem.tsnr :
            IF mem.temporal_std[z] = 0
            THEN mem.tsnr[z] = Num(0) /\ mem.tsnr_scaled[z] = Num(0)
            ELSE /\ mem.tsnr[z] = Num((mem.temporal_mean[z] * Milli) \div mem.temporal_std[z])
                 /\ mem.tsnr_scaled[z] =
                        Num((mem.tsnr[z].v * mem.summary.ernst_scaling.v) \div ErnstUnit)

\* A constant positive voxel (std 0, mean 2) beside a varying one.
C5_Witness ==
    /\ MemDone
    /\ \E z \in DOMAIN mem.tsnr :
          mem.temporal_std[z] = 0 /\ mem.temporal_mean[z] > 0 /\ mem.tsnr_scaled[z] = Num(0)
    /\ \E z \in DOMAIN mem.tsnr :
          mem.temporal_std[z] # 0 /\ mem.tsnr[z].v > 0 /\ mem.tsnr_scaled[z].v < mem.tsnr[z].v

\* C6: in process_data_memory_optimized, for every voxel, temporal_mean <= 0
\* gives an iSNR entry of exactly 0 (before and after the Ernst scaling),
\* whatever the noise level of its chunk, a noise level of 0 included.
C6_IsnrZeroGuard ==
    MemDone =>
        \A z \in DOMAIN mem.isnr_map :
            mem.temporal_mean[z] <= 0 =>
                mem.isnr_map[z] = Num(0) /\ mem.isnr_scaled[z] = Num(0)

\* A voxel of mean 0 and one of negative mean, one of them in a chunk whose
\* noise level is 0 and one in a chunk whose noise level is not.
C6_Witness ==
    /\ MemDone
    /\ \E z \in DOMAIN mem.isnr_map :
          mem.temporal_mean[z] <= 0 /\ mem.noise_level[z] = 0 /\ mem.isnr_map[z] = Num(0)
    /\ \E z \in DOMAIN mem.isnr_map :
          mem.temporal_mean[z] < 0 /\ mem.noise_level[z] > 0 /\ mem.isnr_map[z] = Num(0)

\* C7: a noise level of exactly zero with at least one voxel of positive
\* temporal mean makes the iSNR computation fail with UndefinedNoiseLevel, and
\* no iSNR map entry is ever Inf or NaN. (Stated on the pipeline as shipped,
\* chunk_size = 10, called with a positive TR.)
C7_ZeroNoiseRaises ==
    (MemDone /\ arg.chunk_size = 10 /\ PositiveTR(arg.tr)) =>
        /\ \A z \in DOMAIN mem.isnr_map : IsNum(mem.isnr_map[z]) /\ IsNum(mem.isnr_scaled[z])
        /\ (\E z \in DOMAIN mem.isnr_map : mem.noise_level[z] = 0 /\ mem.temporal_mean[z] > 0)
              => mem.raised = "UndefinedNoiseLevel"

WithMetricsDone == prog = "with_metrics" /\ pc = "done"
NophaseDone == prog = "nophase" /\ pc = "done"
BatchDone == prog = "batch" /\ pc = "done"

\* C3: with TR absent (no TR argument, no RepetitionTime in the sidecar) every
\* pipeline entry point uses an Ernst factor of exactly 1.0 and does not put a
\* concrete TR in place of the missing one.
C3_AbsentTRGivesUnitFactor ==
    /\ (WithMetricsDone /\ arg.TR = None /\ arg.file.json_tr = None) =>
          met.metrics.ernst_factor = Num(10000) /\ met.metrics.tr = Unknown
    /\ (NophaseDone /\ arg.TR = None /\ (arg.nifti_path => arg.file.json_tr = None)) =>
          nophase.ErnstScaling = Num(10000) /\ ~nophase.tr_substituted
    /\ (MemDone /\ arg.tr = None /\ arg.file.json_tr = None) =>
          mem.summary.ernst_scaling = Num(10000) /\ ~mem.tr_substituted

\* C4: in the record process_data_with_metrics returns, tsnr_per_unit_time is
\* a number exactly when TR is known and positive; for TR absent, 0 or
\* negative it is None, never 0.0, NaN or Inf. (Stated for the records whose
\* computation reached the field.)
C4_PerUnitTimeOnlyForPositiveTR ==
    (WithMetricsDone /\ "tsnr_per_unit_time" \in DOMAIN met.metrics) =>
        IF arg.TR.k = "num" /\ arg.TR.v > 0
        THEN IsNum(met.metrics.tsnr_per_unit_time)
        ELSE met.metrics.tsnr_per_unit_time = None

\* C8: a masked reduction over a mask that selects no voxel reports
\* NoValidVoxels; it never yields a NaN mean (nor a 0 standing for a value).
\* (Stated on calls with a positive TR.)
C8_EmptyMaskRaises ==
    /\ (MemDone /\ PositiveTR(arg.tr) /\ \A z \in DOMAIN mem.brain_mask : ~mem.brain_mask[z]) =>
          /\ mem.raised = "NoValidVoxels"
          /\ mem.summary.mean_tsnr # NaN /\ mem.summary.mean_isnr # NaN
    /\ (WithMetricsDone /\ PositiveTR(arg.TR) /\ arg.mask_data # None
          /\ arg.mask_data.shape = <<1, 1, Len(arg.file.data)>>
          /\ (\A z \in DOMAIN arg.mask_data.vals : arg.mask_data.vals[z] = 0)
          /\ "tsnr" \in DOMAIN met.metrics) =>
          /\ ~met.metrics.processing_successful
          /\ met.metrics.error = "NoValidVoxels"

\* C9: an external mask whose shape differs in any way from the spatial
\* shape of the volume (a mask of fewer dimensions matching its leading axes
\* included) makes the masked-tSNR computation fail with a shape error; no
\* masked_tsnr is computed from it. (Stated on calls with a positive TR.)
C9_MaskShapeMismatchRaises ==
    (WithMetricsDone /\ PositiveTR(arg.TR) /\ arg.mask_data # None
       /\ arg.mask_data.shape # <<1, 1, Len(arg.file.data)>>) =>
        /\ "masked_tsnr" \notin DOMAIN met.metrics
        /\ "tsnr" \in DOMAIN met.metrics =>
              ~met.metrics.processing_successful /\ met.metrics.error = "IndexError"

\* C10: run_qa_with_metrics returns exactly one (output_dir, metrics) entry per
\* discovered file, in discovery order, a file whose loading, mask loading or
\* processing failed included.
C10_OneEntryPerFile ==
    (BatchDone /\ arg.dir_exists) =>
        /\ Len(batch.returned) = Len(arg.files_found)
        /\ \A i \in 1..Len(batch.returned) : batch.returned[i].output_dir = i

\* C11: in every record process_data_with_metrics returns,
\* processing_successful is false exactly when the record carries an error
\* description, and true exactly when the metric computation raised nothing
\* (the computation ran to its last metric, ssn, exactly when that key is set).
C11_SuccessfulIffNoError ==
    WithMetricsDone =>
        /\ (~met.metrics.processing_successful <=> "error" \in DOMAIN met.metrics)
        /\ (met.metrics.processing_successful <=> "ssn" \in DOMAIN met.metrics)

\* The keys of summary_data and the metrics they are read from.
C12_Metrics == { <<"isnr", "isnr">>, <<"tsnr", "tsnr">>,
                 <<"tsnr_unit", "tsnr_per_unit_time">>, <<"ssn", "ssn">> }

Summarised == prog = "batch" /\ pc = "summarised"

\* C12: in the summary_data run_qa_with_powerpoint hands to the report
\* generator, a metric that was not computed (its key is missing from the
\* record of a failed acquisition, or it is None) is never the number 0.0.
C12_UncomputedIsNotZero ==
    Summarised =>
        \A i \in DOMAIN batch.summary_data : \A km \in C12_Metrics :
            LET metrics == batch.returned[i].metrics
            IN (km[2] \notin DOMAIN metrics \/ dict_get(metrics, km[2], None) = None)
                   => batch.summary_data[i][km[1]] # Num(0)

\* The field names of the QaSummary record.
QaSummaryFields ==
    {"filename", "tr", "ernst_factor", "shape", "voxel_size", "isnr", "noise_value",
     "tsnr", "masked_tsnr", "tsnr_per_unit_time", "processing_successful"}

\* C13: every summary record of an acquisition, from process_data_with_metrics
\* and from process_data_memory_optimized, carries the fields filename, tr,
\* ernst_factor, shape, voxel_size, isnr, noise_value, tsnr, masked_tsnr,
\* tsnr_per_unit_time and processing_successful under those names, and error
\* when processing failed. (Stated for process_data_with_metrics on the
\* records whose processing succeeded, which are the complete ones, of calls
\* with a positive TR.)
C13_SummaryFieldNames ==
    /\ (WithMetricsDone /\ PositiveTR(arg.TR) /\ met.metrics.processing_successful) =>
           QaSummaryFields \subseteq DOMAIN met.metrics
    /\ (WithMetricsDone /\ ~met.metrics.processing_successful) =>
           "error" \in DOMAIN met.metrics
    /\ MemDone => QaSummaryFields \subseteq DOMAIN mem.summary

ChunkStatsDone == prog = "chunk_stats" /\ pc = "done"

\* np.mean(data, axis=3) and np.std(data, axis=3) over the whole volume at once.
WholeVolumeMean(data) == [z \in DOMAIN data |-> TimeMean(ToMilli(data[z]))]
WholeVolumeStd(data) == [z \in DOMAIN data |-> TimeStd(ToMilli(data[z]))]

\* C14: the chunked temporal-statistics loop gives the temporal_mean and
\* temporal_std arrays that the statistics of the whole volume at once give,
\* for every nz and every chunk_size, dividing nz or not.
C14_ChunkedEqualsWhole ==
    /\ ChunkStatsDone =>
           /\ mem.temporal_mean = WholeVolumeMean(arg.data)
           /\ mem.temporal_std = WholeVolumeStd(arg.data)
    /\ MemDone =>
           /\ mem.temporal_mean = WholeVolumeMean(arg.file.data)
           /\ mem.temporal_std = WholeVolumeStd(arg.file.data)

\* Three slices in chunks of two: a whole chunk, then a partial one whose
\* voxel varies over time.
C14_Witness ==
    /\ ChunkStatsDone
    /\ Len(arg.data) = 3 /\ arg.chunk_size = 2
    /\ mem.temporal_std[1] # 0 /\ mem.temporal_std[3] # 0
    /\ mem.temporal_mean[3] # mem.temporal_mean[1]

\* mask = temporal_mean > 0.05 * max(temporal_mean), strictly.
HeuristicMask(temporal_mean) ==
    [z \in DOMAIN temporal_mean |-> temporal_mean[z] * 100 > 5 * np_max(temporal_mean)]

\* C15: the heuristic brain mask of every pipeline is temporal_mean > f *
\* max(temporal_mean), strictly, with f = 0.05, and the mean-tSNR and
\* mean-iSNR reductions of the memory-optimized pipeline run over that mask.
C15_MaskIsFivePercent ==
    /\ prog = "brain_mask" =>
           /\ mem.with_metrics # << >> => mem.with_metrics = HeuristicMask(arg.mean_img)
           /\ mem.memory_optimized # << >> =>
                  mem.memory_optimized = HeuristicMask(arg.mean_img)
    /\ MemDone =>
           /\ mem.summary.mean_tsnr =
                  np_mean(BoolIndex(mem.tsnr_scaled, HeuristicMask(mem.temporal_mean)))
           /\ mem.summary.mean_isnr =
                  np_mean(BoolIndex(mem.isnr_scaled, HeuristicMask(mem.temporal_mean)))

\* The external mask has the spatial shape of the volume.
MatchingMask == arg.mask_data # None /\ arg.mask_data.shape = <<1, 1, Len(arg.file.data)>>

\* mean / std of the mean image over the voxels a mask selects, 0 when the
\* std is not positive (the ssn of process_data_with_metrics).
SsnOver(mean_img, mask) ==
    LET signal == BoolIndex(mean_img, mask)
        signal_std == np_std(signal)
    IN IF signal_std.k = "num" /\ signal_std.v > 0
       THEN FDiv(np_mean(NumSeq(signal)), signal_std) ELSE Num(0)

\* The temporal mean image of the Ernst-scaled volume of the call.
ScaledMeanImg ==
    [z \in DOMAIN arg.file.data |->
        TimeMean([t \in DOMAIN arg.file.data[z] |->
            (arg.file.data[z][t] * Milli * met.metrics.ernst_factor.v) \div ErnstUnit])]

\* C16: with an external mask of matching shape, process_data_with_metrics
\* computes every masked quantity (the masked noise reference, the masked
\* tSNR, the spatial signal statistics) with that mask and none with the
\* heuristic mask. (Stated on calls with a positive TR.)
C16_ExternalMaskReplacesHeuristic ==
    (WithMetricsDone /\ PositiveTR(arg.TR) /\ MatchingMask) =>
        LET supplied == [z \in DOMAIN arg.file.data |-> arg.mask_data.vals[z] > 0]
        IN /\ met.masked_noise =
                 [z \in DOMAIN supplied |-> IF supplied[z] THEN met.noise_volume[z] ELSE 0]
           /\ "ssn" \in DOMAIN met.metrics =>
                 met.metrics.ssn = SsnOver(ScaledMeanImg, supplied)

\* The intensities at time index T-1 of the Ernst-scaled volume of the call.
ScaledLastVolume ==
    [z \in DOMAIN arg.file.data |->
        (arg.file.data[z][Len(arg.file.data[z])] * Milli * met.metrics.ernst_factor.v)
            \div ErnstUnit]

\* C17: under the LastVolumeNoise policy the noise reference comes from time
\* index T-1 only: a voxel outside the brain mask gets noise 0, a voxel inside
\* it the absolute value of its last-volume intensity (0 in place of a
\* non-finite one; the intensities drawn here are all finite). (Stated on
\* calls with a positive TR.)
C17_LastVolumeNoiseReference ==
    (WithMetricsDone /\ PositiveTR(arg.TR)) =>
        \A z \in DOMAIN met.masked_noise :
            met.masked_noise[z] =
                IF met.brain_mask[z] THEN Abs(ScaledLastVolume[z]) ELSE 0

\* C18: the noise reference handed to the iSNR computation is never negative,
\* under both policies: the noise_mask argument of snr.Isnr in
\* process_data_with_metrics, the noise_level of each chunk in
\* process_data_memory_optimized. (Stated on calls with a positive TR.)
C18_NoiseReferenceNonNegative ==
    /\ (WithMetricsDone /\ PositiveTR(arg.TR)) =>
           \A z \in DOMAIN met.masked_noise : met.masked_noise[z] >= 0
    /\ MemDone => \A z \in DOMAIN mem.noise_level : mem.noise_level[z] >= 0

\* The slices of the Z-chunk that holds slice z.
ChunkOf(z) ==
    {y \in DOMAIN mem.temporal_mean :
        (y - 1) \div arg.chunk_size = (z - 1) \div arg.chunk_size}

\* The k-th smallest of the values x[i], i in I.
KthSmallest(x, I, k) ==
    CHOOSE v \in {x[i] : i \in I} :
        /\ Cardinality({i \in I : x[i] < v}) < k
        /\ Cardinality({i \in I : x[i] <= v}) >= k

\* The median of the values x[i], i in I (I not empty).
MedianOver(x, I) ==
    LET n == Cardinality(I)
    IN IF n % 2 = 1 THEN KthSmallest(x, I, (n + 1) \div 2)
       ELSE (KthSmallest(x, I, n \div 2) + KthSmallest(x, I, n \div 2 + 1)) \div 2

\* The background of the chunk of slice z: temporal_mean < 0.05 * the maximum
\* of temporal_mean over that chunk.
BackgroundOf(z) ==
    LET chunk == ChunkOf(z)
        top == CHOOSE m \in {mem.temporal_mean[y] : y \in chunk} :
                   \A y \in chunk : mem.temporal_mean[y] <= m
    IN {y \in chunk : mem.temporal_mean[y] * 100 < 5 * top}

\* C19: under the BackgroundRegionNoise policy the noise level of each Z-chunk
\* is the median of temporal_std over the chunk's background (temporal_mean <
\* 0.05 * max of the chunk) when the background is not empty, and 0.1 * the
\* median of temporal_std over the whole chunk exactly when it is empty.
C19_BackgroundRegionNoise ==
    MemDone =>
        \A z \in DOMAIN mem.noise_level :
            mem.noise_level[z] =
                IF BackgroundOf(z) # {}
                THEN MedianOver(mem.temporal_std, BackgroundOf(z))
                ELSE MedianOver(mem.temporal_std, ChunkOf(z)) \div 10

\* Two chunks of one slice each: the first is all background (negative mean),
\* the second has none, and both get a positive noise level.
C19_Witness ==
    /\ MemDone
    /\ arg.chunk_size = 1 /\ Len(arg.file.data) = 2
    /\ BackgroundOf(1) = {1} /\ mem.noise_level[1] = mem.temporal_std[1]
    /\ BackgroundOf(2) = {} /\ mem.noise_level[2] > 0
    /\ mem.noise_level[2] < mem.temporal_std[2]

\* The intensities a noise scan is changed to.
NoiseScans == {-1, 0, 5}

\* The volume data with its time index T-1 replaced, slice by slice, by v.
WithLastVolume(data, v) ==
    [z \in DOMAIN data |->
        [t \in DOMAIN data[z] |-> IF t = Len(data[z]) THEN v[z] ELSE data[z][t]]]

\* The call of this run repeated on the volume whose noise scan is v.
SameCallWithNoiseScan(v) ==
    process_data_with_metrics([arg.file EXCEPT !.data = WithLastVolume(@, v)],
                              arg.mask_data, arg.TR, arg.nifti_path, arg.nophase_raises)

\* C20: under the LastVolumeNoise policy the tSNR map and the reported mean
\* tSNR come from time indices 0..T-2 only: whatever the intensities of the
\* noise volume at index T-1 are changed to, every entry of the tSNR map and
\* the mean tSNR stay what they are (for the calls that reach the tSNR).
C20_TsnrIgnoresNoiseScan ==
    (WithMetricsDone /\ "tsnr" \in DOMAIN met.metrics) =>
        \A v \in [DOMAIN arg.file.data -> NoiseScans] :
            LET other == SameCallWithNoiseScan(v)
            IN "tsnr" \in DOMAIN other.metrics =>
                  /\ other.tsnr_map = met.tsnr_map
                  /\ other.metrics.tsnr = met.metrics.tsnr

\* A volume with a positive mean tSNR, and a noise scan that changes its iSNR.
C20_Witness ==
    /\ WithMetricsDone /\ "tsnr" \in DOMAIN met.metrics
    /\ met.metrics.tsnr.k = "num" /\ met.metrics.tsnr.v > 0
    /\ \E v \in [DOMAIN arg.file.data -> NoiseScans] :
          LET other == SameCallWithNoiseScan(v)
          IN /\ "tsnr" \in DOMAIN other.metrics
             /\ other.metrics.isnr # met.metrics.isnr
             /\ other.masked_noise # met.masked_noise

\* A TR a caller can pass for an acquisition: none, or a positive one.
AbsentOrPositiveTR(t) == t = None \/ PositiveTR(t)

\* The entries of a map that are not 0.
NonzeroEntries(s) == BoolIndex(s, [i \in DOMAIN s |-> s[i] # Num(0)])

\* C21: the reported mean tSNR is the mean of the tSNR map over its nonzero
\* entries only: in process_data_with_metrics over the nonzero entries under
\* the supplied mask (masked_tsnr) and over all nonzero entries (tsnr); in
\* process_data_memory_optimized over the nonzero entries of the scaled map in
\* the brain. A zero-guarded voxel (tsnr = 0) never enters the average.
\* (Stated for the maps that have a nonzero entry to average.)
C21_MeanOverNonzeroEntries ==
    /\ (WithMetricsDone /\ AbsentOrPositiveTR(arg.TR)
           /\ "tsnr" \in DOMAIN met.metrics
           /\ NonzeroEntries(met.tsnr_map) # << >>) =>
          met.metrics.tsnr = np_mean(NonzeroEntries(met.tsnr_map))
    /\ (WithMetricsDone /\ AbsentOrPositiveTR(arg.TR)
           /\ "masked_tsnr" \in DOMAIN met.metrics
           /\ arg.mask_data # None
           /\ NonzeroEntries(bool_index(met.tsnr_map, arg.mask_data)) # << >>) =>
          met.metrics.masked_tsnr =
              np_mean(NonzeroEntries(bool_index(met.tsnr_map, arg.mask_data)))
    /\ (MemDone /\ AbsentOrPositiveTR(arg.tr)
           /\ NonzeroEntries(BoolIndex(mem.tsnr_scaled, mem.brain_mask)) # << >>) =>
          mem.summary.mean_tsnr =
              np_mean(NonzeroEntries(BoolIndex(mem.tsnr_scaled, mem.brain_mask)))

\* C22: a volume with fewer than 2 time points is rejected with a
\* DegenerateVolume failure before any metric is produced: no tSNR, iSNR or
\* summary value is computed for it.
C22_SingleVolumeRejected ==
    (MemDone /\ AbsentOrPositiveTR(arg.tr) /\ Len(arg.file.data[1]) < 2) =>
        /\ mem.raised = "DegenerateVolume"
        /\ mem.summary.mean_tsnr = None
        /\ mem.summary.mean_isnr = None

\* ---------------- process_data_with_metrics called twice by the same caller
\* The caller's array after "imgm_cla *= ernst_factor", a scaling in place.
caller_array_scaled_in_place(imgm_cla, ernst_factor) ==
    [z \in DOMAIN imgm_cla |-> [t \in DOMAIN imgm_cla[z] |->
        (imgm_cla[z][t] * ernst_factor) \div ErnstUnit]]

\* The caller's array after "imgm_cla = imgm_cla * ernst_factor": the product
\* is a new array bound to the local name, the caller's array keeps its
\* contents. Nothing else in the function writes to imgm_cla or to mask_data:
\* noise_volume, imgm_cla_nn and masked_tsnr are slices that are only read,
\* np.nan_to_num copies.
caller_array_after_scaling(imgm_cla, ernst_factor) == imgm_cla

\* The arrays the caller holds: a dark voxel, a varying one, one whose noise
\* scan is 0; no sidecar is read (no nifti_path is passed).
RunTwiceFiles ==
    [data : UNION {[1..nz -> StatsSeries] : nz \in 1..MaxNz}, json_tr : {None}]

\* The caller holds one array and one mask and calls the function on them,
\* then calls it again on the same objects; mem is what the caller holds (the
\* contents of its array and of its mask now, the records returned so far).
InitRunTwice ==
    /\ prog = "run_twice"
    /\ pc = "ready"
    /\ arg \in [file : RunTwiceFiles, mask_data : AllMasks, TR : PipelineTR,
                nifti_path : {FALSE}, nophase_raises : BOOLEAN]
    /\ arg.mask_data \in Masks(Len(arg.file.data))
    /\ ernst = NoErnst
    /\ mem = [imgm_cla |-> arg.file.data, mask_data |-> arg.mask_data, returned |-> << >>]
    /\ met = None
    /\ nophase = None
    /\ batch = [i |-> 1, results |-> << >>, returned |-> None, summary_data |-> None]

\* One call of process_data_with_metrics on what the caller holds.
CallProcessDataWithMetricsAgain ==
    /\ prog = "run_twice" /\ Len(mem.returned) < 2
    /\ LET ernst_factor == IF Truthy(arg.TR) THEN get_ernst_scaling(arg.TR) ELSE 10000
           done == process_data_with_metrics(
                       [data |-> mem.imgm_cla, json_tr |-> arg.file.json_tr],
                       mem.mask_data, arg.TR, arg.nifti_path, arg.nophase_raises)
       IN /\ met' = done
          /\ mem' = [imgm_cla |-> IF ernst_factor # 10000
                                  THEN caller_array_after_scaling(mem.imgm_cla, ernst_factor)
                                  ELSE mem.imgm_cla,
                     mask_data |-> mem.mask_data,
                     returned |-> Append(mem.returned, done.metrics)]
    /\ pc' = IF Len(mem.returned) = 0 THEN "once" ELSE "done"
    /\ UNCHANGED <<prog, arg, ernst, nophase, batch>>

NextRunTwice == CallProcessDataWithMetricsAgain

SpecRunTwice == InitRunTwice /\ [][NextRunTwice]_vars

chunk_z_end_unclipped(z_start, chunk_size, nz) == z_start + chunk_size

\* z_end = min(z_start + chunk_size, nz)
chunk_z_end(z_start, chunk_size, nz) == Min2(z_start + chunk_size, nz)

\* The two loops (temporal statistics, lines 126-135; iSNR, lines 163-186)
\* over volumes of 1..MaxLoopNz slices; chunk_size is 10 in the code, and the
\* smaller ones split the volumes of the model.
InitChunkLoop ==
    /\ prog = "chunk_loop"
    /\ pc = "loop"
    /\ arg \in [loop : {"temporal_stats", "isnr"}, nz : 1..MaxLoopNz,
                chunk_size : (1..(MaxLoopNz + 1)) \cup {10}]
    /\ ernst = NoErnst
    /\ mem = [z_start |-> 0, chunks |-> << >>]
    /\ met = None
    /\ nophase = None
    /\ batch = [i |-> 1, results |-> << >>, returned |-> None, summary_data |-> None]

\* One iteration: range() yields the next z_start (below nz), the body works
\* on the slices [z_start, z_end).
ChunkLoopBody ==
    /\ prog = "chunk_loop" /\ pc = "loop"
    /\ mem.z_start < arg.nz
    /\ mem' = [z_start |-> mem.z_start + arg.chunk_size,
               chunks |-> Append(mem.chunks,
                             [z_start |-> mem.z_start,
                              z_end |-> chunk_z_end(mem.z_start, arg.chunk_size, arg.nz)])]
    /\ UNCHANGED <<prog, pc, arg, ernst, met, nophase, batch>>

\* range() is exhausted: the loop is left.
ChunkLoopExit ==
    /\ prog = "chunk_loop" /\ pc = "loop"
    /\ mem.z_start >= arg.nz
    /\ pc' = "done"
    /\ UNCHANGED <<prog, arg, ernst, mem, met, nophase, batch>>

NextChunkLoop == ChunkLoopBody \/ ChunkLoopExit

\* The interpreter runs the loop to its end: an enabled step is taken.
SpecChunkLoop == InitChunkLoop /\ [][NextChunkLoop]_vars /\ WF_vars(NextChunkLoop)

CeilDiv(a, b) == (a + b - 1) \div b

\* The chunks visited so far are in increasing order, disjoint, inside 0..nz,
\* non-empty, and cover the slices below the next z_start exactly once.
ChunksPartitionPrefix ==
    /\ Len(mem.chunks) <= CeilDiv(arg.nz, arg.chunk_size)
    /\ \A i \in DOMAIN mem.chunks :
          /\ 0 <= mem.chunks[i].z_start
          /\ mem.chunks[i].z_start < mem.chunks[i].z_end
          /\ mem.chunks[i].z_end <= arg.nz
    /\ \A i, j \in DOMAIN mem.chunks :
          i < j => mem.chunks[i].z_end <= mem.chunks[j].z_start
    /\ \A z \in 0..(Min2(mem.z_start, arg.nz) - 1) :
          Cardinality({i \in DOMAIN mem.chunks :
                          mem.chunks[i].z_start <= z /\ z < mem.chunks[i].z_end}) = 1

\* C24: for every nz >= 1 and chunk_size >= 1 each chunked loop terminates
\* after exactly ceil(nz / chunk_size) iterations; the chunks [z_start, z_end)
\* are visited in increasing order, are pairwise disjoint, never exceed nz, and
\* together cover every slice index 0..nz-1 exactly once.
C24_ChunkLoopTerminatesAndCovers ==
    /\ (prog = "chunk_loop") ~> (pc = "done")
    /\ [](prog = "chunk_loop" =>
            /\ ChunksPartitionPrefix
            /\ pc = "done" =>
                  /\ Len(mem.chunks) = CeilDiv(arg.nz, arg.chunk_size)
                  /\ mem.z_start >= arg.nz)

\* A loop that ended after three chunks, the last one clipped to nz.
C24_Witness ==
    /\ prog = "chunk_loop" /\ pc = "done"
    /\ Len(mem.chunks) = 3
    /\ mem.chunks[3].z_end - mem.chunks[3].z_start < arg.chunk_size

\* C25: within one call of process_data_with_metrics, the TR and the Ernst
\* factor recorded in the returned metrics record equal the TR and the Ernst
\* factor that the image-generation step (process_data_nophase) applies to the
\* tSNR-per-unit-time map of the same acquisition, for every TR input, TR
\* absent and TR = 0 included.
C25_MetricsTRIsImageTR ==
    (WithMetricsDone /\ (arg.TR = None \/ arg.TR.v >= 0)) =>
        \A i \in DOMAIN met.nophase_calls :
            /\ met.nophase_calls[i].TR = met.metrics.tr
            /\ met.nophase_calls[i].ErnstScaling = met.metrics.ernst_factor

\* C26: TR resolution in process_data_nophase follows a fixed precedence: an
\* explicit TR argument is always used as given and the sidecar is not
\* consulted; the sidecar RepetitionTime is used only when the argument is
\* None and a nifti_path is given; the default 1.4 is used only when both are
\* unavailable. The Ernst factor is always that of the TR resolved this way.
C26_TRPrecedence ==
    NophaseDone =>
        /\ arg.TR # None => nophase.TR = arg.TR /\ ~nophase.sidecar_read
        /\ nophase.sidecar_read => arg.TR = None /\ arg.nifti_path
        /\ (arg.TR = None /\ arg.nifti_path /\ arg.file.json_tr # None) =>
              nophase.TR = arg.file.json_tr
        /\ nophase.tr_substituted <=>
              (arg.TR = None /\ (~arg.nifti_path \/ arg.file.json_tr = None))
        /\ nophase.tr_substituted => nophase.TR = Num(1400)
        /\ nophase.ErnstScaling = Num(FourStep(nophase.TR.v))

\* A call with an explicit TR beside a sidecar that holds another one, in
\* each module.
C26_Witness ==
    /\ NophaseDone /\ arg.module = "qa_run_nophase_V2"
    /\ arg.TR = Num(2000) /\ arg.nifti_path /\ arg.file.json_tr = Num(700)
    /\ nophase.TR = Num(2000) /\ nophase.ErnstScaling = Num(10000)

\* The exception raised in the try block of process_data_with_metrics ("" for
\* none), as the returned record tells it.
RaisedInTry == IF "error" \in DOMAIN met.metrics THEN met.metrics.error ELSE ""

\* C27, as stated: process_data_nophase is invoked at least once and at most
\* twice per call, and a second time exactly when an exception was raised
\* inside the try block, by the metric computation or by the first invocation.
\* (Stated for a TR a caller can pass and the exceptions raised by the
\* statements of the function itself.)
C27_SecondInvocationIffException ==
    (WithMetricsDone /\ AbsentOrPositiveTR(arg.TR)
        /\ RaisedInTry \in {"", "IndexError", "nophase"}) =>
        /\ Len(met.nophase_calls) \in {1, 2}
        /\ Len(met.nophase_calls) = 2 <=> RaisedInTry # ""

\* C27, amended: process_data_nophase is invoked at least once and at most
\* twice per call; it is invoked twice exactly when its first invocation
\* raised; when the metric computation raised, the invocation in the except
\* clause is the only one. On every path the function returns a metrics record
\* whose processing_successful tells whether the try block raised.
C27_SecondInvocationIffFirstRaised ==
    WithMetricsDone =>
        /\ Len(met.nophase_calls) \in {1, 2}
        /\ Len(met.nophase_calls) = 2 <=> RaisedInTry = "nophase"
        /\ RaisedInTry \notin {"", "nophase"} => Len(met.nophase_calls) = 1
        /\ "filename" \in DOMAIN met.metrics
        /\ met.metrics.processing_successful <=> RaisedInTry = ""

\* A call whose metric computation raised (a mask of another shape) and whose
\* only invocation of process_data_nophase, in the except clause, raised too.
C27_Witness ==
    /\ WithMetricsDone /\ RaisedInTry = "IndexError"
    /\ Len(met.nophase_calls) = 1
    /\ met.nophase_calls[1].raised = "nophase"

\* ------------- run_qa_simple.py, run_qa_multi_tr.py: the two batch drivers
\* What happens to one discovered file in the loop body: os.makedirs raises;
\* the path does not exist any more (a dangling link, a file removed since the
\* listing), which the body answers with "continue"; load_data raises (on the
\* file or on the mask); process_data_nophase raises; or all of it succeeds.
DriverFileOutcomes ==
    {"makedirs_raises", "missing", "load_data_raises", "process_raises", "processed"}

DriverFileLists == UNION {[1..n -> DriverFileOutcomes] : n \in 0..MaxDriverFiles}

\* The increment with the skipped files counted too.
success_increment_counting_skipped(outcome) ==
    IF outcome \in {"processed", "missing"} THEN 1 ELSE 0

\* What one pass of the loop body adds to success_count: "success_count += 1"
\* is the last statement of the try block, after the "continue" of a missing
\* file and after every call that can raise.
success_increment(outcome) == IF outcome = "processed" THEN 1 ELSE 0

\* run_qa_simple(func_dir, ...) and run_multi_tr_analysis(func_dir, ...): the
\* directory and what glob lists in it, in discovery order.
InitBatchDrivers ==
    /\ prog = "batch_driver"
    /\ pc = "ready"
    /\ arg \in [driver : {"run_qa_simple", "run_multi_tr_analysis"},
                dir_exists : BOOLEAN, files_found : DriverFileLists]
    /\ ernst = NoErnst
    /\ mem = None
    /\ met = None
    /\ nophase = None
    /\ batch = [tr_info |-> << >>, attempted |-> << >>, success_count |-> 0,
                returned |-> None]

\* "return False" for a missing directory or an empty listing.
DriverReturnFalse ==
    /\ prog = "batch_driver" /\ pc = "ready"
    /\ ~arg.dir_exists \/ arg.files_found = << >>
    /\ batch' = [batch EXCEPT !.returned = FALSE]
    /\ pc' = "done"
    /\ UNCHANGED <<prog, arg, ernst, mem, met, nophase>>

\* run_multi_tr_analysis: the first loop, which fills tr_info with one
\* (file_path, tr) pair per file, in the order of files_found; get_tr_from_json
\* catches its own exceptions.
MultiTrCollectTrInfo ==
    /\ prog = "batch_driver" /\ pc = "ready"
    /\ arg.driver = "run_multi_tr_analysis"
    /\ arg.dir_exists /\ arg.files_found # << >>
    /\ batch' = [batch EXCEPT !.tr_info = [i \in DOMAIN arg.files_found |-> i]]
    /\ pc' = "loop"
    /\ UNCHANGED <<prog, arg, ernst, mem, met, nophase>>

\* run_qa_simple iterates over files_found itself.
SimpleEnterLoop ==
    /\ prog = "batch_driver" /\ pc = "ready"
    /\ arg.driver = "run_qa_simple"
    /\ arg.dir_exists /\ arg.files_found # << >>
    /\ batch' = [batch EXCEPT !.tr_info = [i \in DOMAIN arg.files_found |-> i]]
    /\ pc' = "loop"
    /\ UNCHANGED <<prog, arg, ernst, mem, met, nophase>>

\* One pass of the loop body, on the next file of the iteration.
DriverLoopBody ==
    /\ prog = "batch_driver" /\ pc = "loop"
    /\ Len(batch.attempted) < Len(batch.tr_info)
    /\ LET file == batch.tr_info[Len(batch.attempted) + 1]
       IN batch' = [batch EXCEPT
                      !.attempted = Append(@, file),
                      !.success_count = @ + success_increment(arg.files_found[file])]
    /\ UNCHANGED <<prog, pc, arg, ernst, mem, met, nophase>>

\* "return success_count > 0" after the loop.
DriverReturn ==
    /\ prog = "batch_driver" /\ pc = "loop"
    /\ Len(batch.attempted) = Len(batch.tr_info)
    /\ batch' = [batch EXCEPT !.returned = (batch.success_count > 0)]
    /\ pc' = "done"
    /\ UNCHANGED <<prog, arg, ernst, mem, met, nophase>>

NextBatchDrivers ==
    \/ DriverReturnFalse
    \/ MultiTrCollectTrInfo
    \/ SimpleEnterLoop
    \/ DriverLoopBody
    \/ DriverReturn

SpecBatchDrivers == InitBatchDrivers /\ [][NextBatchDrivers]_vars

DriverDone == prog = "batch_driver" /\ pc = "done"

\* The files of the listing whose outcome is in S.
FilesWith(S) == {i \in DOMAIN arg.files_found : arg.files_found[i] \in S}

\* C28, as stated: in run_qa_simple and run_multi_tr_analysis every discovered
\* file is attempted exactly once in discovery order regardless of failures of
\* earlier files; success_count equals the number of files whose processing
\* raised no exception; the driver returns True if and only if success_count
\* > 0, and returns False without processing anything when the directory is
\* missing or no file matches.
C28_SuccessCountIsNoException ==
    DriverDone =>
        IF ~arg.dir_exists \/ arg.files_found = << >>
        THEN batch.returned = FALSE /\ batch.attempted = << >>
        ELSE /\ batch.attempted = [i \in DOMAIN arg.files_found |-> i]
             /\ batch.success_count = Cardinality(FilesWith({"processed", "missing"}))
             /\ batch.returned <=> batch.success_count > 0

\* C28, amended: the same, with success_count the number of files that were
\* still there when their turn came and whose processing raised no exception
\* (a file missing at its turn is skipped: no exception, no success).
C28_SuccessCountIsProcessed ==
    DriverDone =>
        IF ~arg.dir_exists \/ arg.files_found = << >>
        THEN batch.returned = FALSE /\ batch.attempted = << >>
        ELSE /\ batch.attempted = [i \in DOMAIN arg.files_found |-> i]
             /\ batch.success_count = Cardinality(FilesWith({"processed"}))
             /\ 0 <= batch.success_count
             /\ batch.success_count <= Len(arg.files_found)
             /\ batch.returned <=> batch.success_count > 0

\* A listing whose first file raises and whose second one is processed.
C28_Witness ==
    /\ DriverDone /\ arg.dir_exists
    /\ arg.files_found = <<"load_data_raises", "processed">>
    /\ batch.attempted = <<1, 2>> /\ batch.success_count = 1 /\ batch.returned = TRUE

\* ------------------------------------------- run_batch_qa_sub001.py: main
\* files_to_process, by the series number that tells the three names apart.
files_to_process ==
    << "4_fmri_MB3_ARC2_fMRI_2mm.nii.gz",
       "7_fmri_MB3_ARC2_fMRI_2mm_1.5.nii.gz",
       "11_fmri_MB3_ARC2_fMRI_1.5_mm_iso.nii.gz" >>

\* What the environment does with one file: it is not there; the subprocess
\* ends with return code 0, or with another one, or runs into the 300-second
\* timeout; or subprocess.run (or a statement after it) raises.
Sub001Outcomes ==
    {"missing", "returncode_0", "returncode_nonzero", "timeout", "exception"}

\* output_dir = os.path.join(output_base_dir, output_name)
sub001_output_dir(nifti_file) == <<"qa_output_batch", nifti_file>>

\* The function with the return code of the subprocess not looked at.
run_memory_optimized_qa_any_returncode(nifti_file, outcome) ==
    IF outcome \in {"returncode_0", "returncode_nonzero"}
    THEN [success |-> TRUE, output_dir |-> sub001_output_dir(nifti_file)]
    ELSE [success |-> FALSE, output_dir |-> None]

\* run_memory_optimized_qa(nifti_file, output_base_dir): (True, output_dir)
\* for return code 0; (False, None) for any other return code, for
\* subprocess.TimeoutExpired and for any other exception.
run_memory_optimized_qa(nifti_file, outcome) ==
    IF outcome = "returncode_0"
    THEN [success |-> TRUE, output_dir |-> sub001_output_dir(nifti_file)]
    ELSE [success |-> FALSE, output_dir |-> None]

InitBatchSub001 ==
    /\ prog = "batch_sub001"
    /\ pc = "loop"
    /\ arg \in [outcomes : [DOMAIN files_to_process -> Sub001Outcomes]]
    /\ ernst = NoErnst
    /\ mem = None
    /\ met = None
    /\ nophase = None
    /\ batch = [i |-> 1, successful_outputs |-> << >>, failed_files |-> << >>,
                returned |-> None]

\* One pass of "for filename in files_to_process".
Sub001LoopBody ==
    /\ prog = "batch_sub001" /\ pc = "loop"
    /\ batch.i <= Len(files_to_process)
    /\ LET filename == files_to_process[batch.i]
           done == run_memory_optimized_qa(filename, arg.outcomes[batch.i])
       IN batch' =
            IF arg.outcomes[batch.i] = "missing"
            THEN [batch EXCEPT !.i = @ + 1, !.failed_files = Append(@, filename)]
            ELSE IF done.success
            THEN [batch EXCEPT !.i = @ + 1,
                               !.successful_outputs = Append(@, done.output_dir)]
            ELSE [batch EXCEPT !.i = @ + 1, !.failed_files = Append(@, filename)]
    /\ UNCHANGED <<prog, pc, arg, ernst, mem, met, nophase>>

\* "return successful_outputs" after the loop.
Sub001Return ==
    /\ prog = "batch_sub001" /\ pc = "loop"
    /\ batch.i > Len(files_to_process)
    /\ batch' = [batch EXCEPT !.returned = batch.successful_outputs]
    /\ pc' = "done"
    /\ UNCHANGED <<prog, arg, ernst, mem, met, nophase>>

NextBatchSub001 == Sub001LoopBody \/ Sub001Return

SpecBatchSub001 == InitBatchSub001 /\ [][NextBatchSub001]_vars

\* The number of places of the sequence s that hold x.
CountIn(x, s) == Cardinality({j \in DOMAIN s : s[j] = x})

\* C29: in run_batch_qa_sub001.main, after the loop every file of
\* files_to_process is accounted for in exactly one of the two lists: its
\* output directory is in successful_outputs or its name is in failed_files,
\* never both and never neither, so len(successful_outputs) +
\* len(failed_files) == len(files_to_process); a missing file, a non-zero
\* return code, a timeout or any exception marks the file failed, and the loop
\* proceeds to the next file.
C29_EveryFileInOneList ==
    (prog = "batch_sub001" /\ pc = "done") =>
        /\ batch.i = Len(files_to_process) + 1
        /\ \A k \in DOMAIN files_to_process :
              /\ CountIn(sub001_output_dir(files_to_process[k]), batch.successful_outputs)
                    + CountIn(files_to_process[k], batch.failed_files) = 1
              /\ arg.outcomes[k] # "returncode_0" =>
                    CountIn(files_to_process[k], batch.failed_files) = 1
        /\ Len(batch.successful_outputs) + Len(batch.failed_files)
              = Len(files_to_process)
        /\ batch.returned = batch.successful_outputs

\* A run whose first file timed out, whose second one succeeded and whose
\* third one is missing.
C29_Witness ==
    /\ prog = "batch_sub001" /\ pc = "done"
    /\ arg.outcomes = <<"timeout", "returncode_0", "missing">>
    /\ Len(batch.successful_outputs) = 1 /\ Len(batch.failed_files) = 2

\* A mask over a mean image is non-empty exactly when the maximum of the image
\* is positive: every maximal voxel is in it then, and no voxel is in it when
\* the maximum is zero or negative.
NonEmptyIffPositiveMax(mask, mean_img) ==
    /\ np_max(mean_img) > 0 =>
          \A z \in DOMAIN mean_img : mean_img[z] = np_max(mean_img) => mask[z]
    /\ np_max(mean_img) <= 0 => \A z \in DOMAIN mean_img : ~mask[z]
    /\ (\E z \in DOMAIN mean_img : mask[z]) <=> np_max(mean_img) > 0

\* C30: the heuristic brain mask (temporal_mean > f * max(temporal_mean), f =
\* 0.05 in process_data_with_metrics, 0.1 in process_data_memory_optimized) is
\* non-empty if and only if max(temporal_mean) > 0: whenever the maximum is
\* positive the maximal voxel is in the mask, and whenever the maximum is zero
\* or negative the mask is all-false.
C30_MaskNonEmptyIffPositiveMax ==
    /\ (prog = "brain_mask" /\ mem.with_metrics # << >>) =>
          NonEmptyIffPositiveMax(mem.with_metrics, arg.mean_img)
    /\ (prog = "brain_mask" /\ mem.memory_optimized # << >>) =>
          NonEmptyIffPositiveMax(mem.memory_optimized, arg.mean_img)
    /\ WithMetricsDone => NonEmptyIffPositiveMax(met.brain_mask, ScaledMeanImg)
    /\ MemDone => NonEmptyIffPositiveMax(mem.brain_mask, mem.temporal_mean)

\* Both masks computed on an image whose maximum is 0, beside a voxel of
\* negative mean: both are all-false.
C30_Witness ==
    /\ prog = "brain_mask"
    /\ mem.with_metrics = <<FALSE, FALSE>> /\ mem.memory_optimized = <<FALSE, FALSE>>
    /\ arg.mean_img = <<-1000, 0>>

====
